---- MODULE Spec2Model ----
(***************************************************************************)
(* Model of the flat hit table of src/modules/hits.py (class FlatHits and  *)
(* its time-aware subclass GeomHits): the record array `data`, the lookup  *)
(* tables event_to_n_hits / hits_to_events / event_to_hits, the counters   *)
(* n_hits / n_events, and the mutating operations trim_hits, trim_events,  *)
(* sort_hits and add_hits.  Later parts model the queries (get_events,     *)
(* filter_hits, get_hit_types, get_measurement), the import of a source    *)
(* file, the hodoscope table CTHHits, the pair view CDCHits and the merger *)
(* HitsMerger, each with a specification of its own over the same          *)
(* variables.                                                              *)
(*                                                                         *)
(* Hit and event indices are kept 0-based as in the program; TLA+          *)
(* sequences are 1-based, so index i of an array is position i+1.          *)
(***************************************************************************)
EXTENDS Integers, Sequences, FiniteSets, TLC

VARIABLES tab, pre, call, err, ncalls

vars == <<tab, pre, call, err, ncalls>>

(* ------------------------------ bounds --------------------------------- *)
\* largest number of hits in a source file
MaxHits == 2
\* largest number of events in a source file
MaxEvents == 2
\* number of mutating calls made on a table after its construction
MaxCalls == 1

(* --------------------------- column names ------------------------------ *)
hit_type_name == "HitType"
key_name == "EventNumber"
hits_index_name == "hits_index"
event_index_name == "event_index"
time_name == "DetectedTime"
\* a column name that no table has
unknown_name == "NoSuchBranch"

\* FlatHits.__init__: branches + [key_name] + [hits_index_name] + [event_index_name]
FlatBranches == <<hit_type_name, key_name, hits_index_name, event_index_name>>
\* GeomHits.__init__ appends the time column after the FlatHits columns
GeomBranches == FlatBranches \o <<time_name>>

\* value sets of the imported hit-wise columns
HitTypes == {0, 1}
Times == {0, 1}

(* --------------------------- small helpers ----------------------------- *)
SeqRange(s) == {s[i] : i \in DOMAIN s}

RECURSIVE SeqSum(_)
SeqSum(s) == IF s = <<>> THEN 0 ELSE s[1] + SeqSum(Tail(s))

RECURSIVE Flatten(_)
\* np.concatenate of a sequence of arrays
Flatten(ss) == IF ss = <<>> THEN <<>> ELSE ss[1] \o Flatten(Tail(ss))

SetMax(S) == CHOOSE x \in S : \A y \in S : y <= x

\* the column `name` of a record array
Column(rows, name) == [i \in DOMAIN rows |-> rows[i][name]]

\* numpy index normalisation: a negative index counts from the end
NormIndex(i, n) == IF i < 0 THEN i + n ELSE i
ValidIndex(i, n) == NormIndex(i, n) >= 0 /\ NormIndex(i, n) < n

\* arr[idx] for an integer index array idx (0-based, all indices valid)
TakeIdx(arr, idx) == [k \in 1..Len(idx) |-> arr[NormIndex(idx[k], Len(arr)) + 1]]

RECURSIVE TruePositions(_, _)
\* np.where(mask)[0]: the 0-based positions where mask holds, ascending
TruePositions(mask, i) ==
    IF i > Len(mask) THEN <<>>
    ELSE (IF mask[i] THEN <<i - 1>> ELSE <<>>) \o TruePositions(mask, i + 1)

\* arr[mask] for a boolean mask
TakeMask(arr, mask) == TakeIdx(arr, TruePositions(mask, 1))

\* np.arange(first, last)
arange(first, last) == [i \in 1..(last - first) |-> first + i - 1]

\* np.bincount(x, minlength): occurrences of 0, 1, ... in x (x non-negative)
bincount(x, minlength) ==
    LET top == IF x = <<>> THEN 0 ELSE SetMax(SeqRange(x)) + 1
        len == IF top > minlength THEN top ELSE minlength
    IN [e \in 1..len |-> Cardinality({i \in DOMAIN x : x[i] = e - 1})]

(* ------------------------- record-array sorting ------------------------ *)
\* variant: only the named fields are compared
new_names_order_only(all_branches, order) == order

\* numpy sorts a structured array by the fields named in `order` first and
\* then by the remaining fields in dtype order
new_names(all_branches, order) ==
    order \o SelectSeq(all_branches, LAMBDA b : b \notin SeqRange(order))

\* lexicographic comparison of two records over the field list `names`
RecLess(a, b, names) ==
    \E k \in DOMAIN names :
        /\ a[names[k]] < b[names[k]]
        /\ \A j \in 1..(k - 1) : a[names[j]] = b[names[j]]

\* 0-based argsort of rows under the field list `names`
argsort(rows, names) ==
    LET n == Len(rows)
        Rank(i) == Cardinality({j \in 1..n :
                      \/ RecLess(rows[j], rows[i], names)
                      \/ (~RecLess(rows[i], rows[j], names) /\ j < i)})
    IN [k \in 1..n |-> (CHOOSE i \in 1..n : Rank(i) = k - 1) - 1]

Reverse(s) == [i \in 1..Len(s) |-> s[Len(s) + 1 - i]]

(* ------------------------------ FlatHits ------------------------------- *)
\* a slice bound of an array of length n: a negative bound counts from the
\* end, and every bound is clipped to 0..n
SliceIndex(i, n) ==
    IF i < 0 THEN (IF i + n < 0 THEN 0 ELSE i + n)
    ELSE (IF i > n THEN n ELSE i)

RECURSIVE lookup_loop(_, _, _, _, _)
\* the for-loop of _generate_lookup_tables
lookup_loop(counts, event, first_hit, h2e, e2h) ==
    IF event > Len(counts)
    THEN [hits_to_events |-> h2e, event_to_hits |-> e2h]
    ELSE LET last_hit == first_hit + counts[event]
         IN lookup_loop(counts, event + 1, last_hit,
                [h \in DOMAIN h2e |->
                    IF SliceIndex(first_hit, Len(h2e)) <= h - 1
                       /\ h - 1 < SliceIndex(last_hit, Len(h2e))
                    THEN event - 1 ELSE h2e[h]],
                Append(e2h, arange(first_hit, last_hit)))

\* FlatHits._generate_lookup_tables
generate_lookup_tables(t) ==
    LET counts == t.event_to_n_hits
        lk == lookup_loop(counts, 1, 0, [h \in 1..SeqSum(counts) |-> 0], <<>>)
    IN [t EXCEPT !.hits_to_events = lk.hits_to_events,
                 !.event_to_hits = lk.event_to_hits]

\* FlatHits._generate_counters
generate_counters(t) ==
    [t EXCEPT !.n_hits = Len(t.hits_to_events),
              !.n_events = Len(t.event_to_n_hits)]

\* variant: only the hit index is reset
generate_indexes_hits_only(t) ==
    [t EXCEPT !.data = [i \in DOMAIN t.data |->
        [t.data[i] EXCEPT ![hits_index_name] = arange(0, t.n_hits)[i]]]]

\* FlatHits._generate_indexes
generate_indexes(t) ==
    [t EXCEPT !.data = [i \in DOMAIN t.data |->
        [t.data[i] EXCEPT ![hits_index_name] = arange(0, t.n_hits)[i],
                          ![event_index_name] = t.hits_to_events[i]]]]

\* FlatHits._reset_all_internal_data
reset_all_internal_data(t) ==
    generate_indexes(generate_counters(generate_lookup_tables(t)))

\* variant: the index columns are not regenerated
trim_lookup_tables_no_indexes(t, events) ==
    generate_counters(generate_lookup_tables(
        [t EXCEPT !.event_to_n_hits = TakeIdx(t.event_to_n_hits, events)]))

\* FlatHits._trim_lookup_tables
trim_lookup_tables(t, events) ==
    reset_all_internal_data(
        [t EXCEPT !.event_to_n_hits = TakeIdx(t.event_to_n_hits, events)])

\* variant: events without hits are kept
reset_event_to_n_hits_keep_empty(t) ==
    LET counts == bincount(Column(t.data, event_index_name), t.n_events)
    IN trim_lookup_tables([t EXCEPT !.event_to_n_hits = counts],
                          arange(0, Len(counts)))

\* FlatHits._reset_event_to_n_hits
reset_event_to_n_hits(t) ==
    LET counts == bincount(Column(t.data, event_index_name), t.n_events)
        empty_events == TruePositions([e \in DOMAIN counts |-> counts[e] > 0], 1)
    IN trim_lookup_tables([t EXCEPT !.event_to_n_hits = counts], empty_events)

\* FlatHits._get_mask: the conditions c are combined with AND, then inverted.
\* Without any condition and without invert the result is the float array
\* np.ones(n), not a boolean array (is_bool = FALSE).
get_mask(these_hits, variable, c) ==
    LET col == Column(these_hits, variable)
        m1 == [i \in DOMAIN these_hits |-> TRUE]
        m2 == IF c.has_values
              THEN [i \in DOMAIN m1 |-> m1[i] /\ col[i] \in c.values] ELSE m1
        m3 == IF c.has_gt
              THEN [i \in DOMAIN m2 |-> m2[i] /\ col[i] > c.greater_than] ELSE m2
        m4 == IF c.has_lt
              THEN [i \in DOMAIN m3 |-> m3[i] /\ col[i] < c.less_than] ELSE m3
        m5 == IF c.invert THEN [i \in DOMAIN m4 |-> ~m4[i]] ELSE m4
    IN [is_bool |-> c.has_values \/ c.has_gt \/ c.has_lt \/ c.invert,
        mask |-> m5]

\* _get_mask reads these_hits[variable] only when a condition is given
reads_column(c) == c.has_values \/ c.has_gt \/ c.has_lt

RECURSIVE sort_loop(_, _, _, _, _)
\* the for-loop of sort_hits: each event's rows are replaced by the same rows
\* in argsort order (reversed when ascending is False)
sort_loop(t, data, evt, variable, ascending) ==
    IF evt >= t.n_events THEN data
    ELSE LET evt_hits == t.event_to_hits[evt + 1]
             rows == TakeIdx(data, evt_hits)
             order == argsort(rows, new_names(t.all_branches, <<variable>>))
             sort_order == IF ascending THEN order ELSE Reverse(order)
             sorted == TakeIdx(rows, sort_order)
             written == [i \in DOMAIN data |->
                 IF \E k \in DOMAIN evt_hits : evt_hits[k] = i - 1
                 THEN sorted[CHOOSE k \in DOMAIN evt_hits : evt_hits[k] = i - 1]
                 ELSE data[i]]
         IN sort_loop(t, written, evt + 1, variable, ascending)

\* variant: the hit index is never reset
sort_hits_never_reset(t, variable, ascending, reset_index) ==
    [t EXCEPT !.data = sort_loop(t, t.data, 0, variable, ascending)]

\* FlatHits.sort_hits (variable is a column of the table)
sort_hits(t, variable, ascending, reset_index) ==
    LET sorted == [t EXCEPT !.data = sort_loop(t, t.data, 0, variable, ascending)]
    IN IF reset_index THEN generate_indexes(sorted) ELSE sorted

\* variant: event_to_n_hits is not recounted
trim_hits_old_counts(t, kept) == reset_all_internal_data([t EXCEPT !.data = kept])

\* FlatHits.trim_hits once the rows to keep are known
trim_hits(t, kept) == reset_event_to_n_hits([t EXCEPT !.data = kept])

\* variant: the listed events are kept in table order, each once
trim_events_table_order(t, events) ==
    LET listed == TruePositions([e \in 1..t.n_events |->
                      \E k \in DOMAIN events :
                          NormIndex(events[k], t.n_events) = e - 1], 1)
        keep_hits == Flatten(TakeIdx(t.event_to_hits, listed))
    IN trim_lookup_tables([t EXCEPT !.data = TakeIdx(t.data, keep_hits)], listed)

\* FlatHits.trim_events (all indices valid, at least one index)
trim_events(t, events) ==
    LET keep_hits == Flatten(TakeIdx(t.event_to_hits, events))
    IN trim_lookup_tables([t EXCEPT !.data = TakeIdx(t.data, keep_hits)], events)

\* variant: the stacked rows are not sorted
add_hits_stacked(t, hits) == [t EXCEPT !.data = t.data \o hits]

\* FlatHits.add_hits, lines 457-458: stack, then sort the whole table by
\* (event_index, time)
add_hits_sorted(t, hits) ==
    LET stacked == t.data \o hits
        order == argsort(stacked,
                     new_names(t.all_branches, <<event_index_name, time_name>>))
    IN [t EXCEPT !.data = TakeIdx(stacked, order)]

(* ----------------------------- construction ---------------------------- *)
\* np.unique(event_data, return_counts=True)[1] for a sorted key column
unique_counts(event_data) ==
    LET keys == SeqRange(event_data)
        Pos(k) == Cardinality({j \in keys : j < k}) + 1
    IN [p \in 1..Cardinality(keys) |->
           Cardinality({i \in DOMAIN event_data :
               Pos(event_data[i]) = p})]

\* FlatHits._generate_event_to_n_hits_table
generate_event_to_n_hits_table(use_evt_idx, event_data) ==
    IF use_evt_idx THEN unique_counts(event_data) ELSE event_data

\* FlatHits.__init__ followed by _finalize_data; hit_types and times are the
\* hit-wise columns of the source file, event_data its key column
FlatHitsInit(use_evt_idx, event_data, hit_types, times, branches) ==
    LET counts == generate_event_to_n_hits_table(use_evt_idx, event_data)
        t0 == [data |-> <<>>, all_branches |-> branches,
               event_to_n_hits |-> counts,
               hits_to_events |-> <<>>, event_to_hits |-> <<>>,
               n_hits |-> 0, n_events |-> 0]
        t1 == generate_counters(generate_lookup_tables(t0))
        key_column == IF use_evt_idx THEN event_data
                      ELSE [h \in 1..t1.n_hits |-> event_data[t1.hits_to_events[h] + 1]]
        row(h) == [b \in SeqRange(branches) |->
                     CASE b = hit_type_name -> hit_types[h]
                       [] b = key_name -> key_column[h]
                       [] b = hits_index_name -> h - 1
                       [] b = event_index_name -> t1.hits_to_events[h]
                       [] OTHER -> times[h]]
    IN generate_indexes([t1 EXCEPT !.data = [h \in 1..t1.n_hits |-> row(h)]])

\* GeomHits.__init__ followed by GeomHits._finalize_data
GeomHitsInit(use_evt_idx, event_data, hit_types, times) ==
    sort_hits(FlatHitsInit(use_evt_idx, event_data, hit_types, times, GeomBranches),
              time_name, TRUE, TRUE)

\* does the object have the attribute time_name (set by GeomHits.__init__)
has_time_name(t) == time_name \in SeqRange(t.all_branches)

(* ------------------------------- inputs -------------------------------- *)
SeqsUpTo(S, n) == UNION {[1..k -> S] : k \in 0..n}

\* sorted key columns (use_evt_idx = True)
KeyColumns == {s \in SeqsUpTo(1..MaxEvents, MaxHits) :
                  /\ s # <<>> => s[1] = 1
                  /\ \A i \in 1..(Len(s) - 1) : s[i + 1] - s[i] \in {0, 1}}
\* hit-count columns (use_evt_idx = False)
CountColumns == {s \in SeqsUpTo(0..MaxHits, MaxEvents) : SeqSum(s) <= MaxHits}

NoCall == [name |-> "init", is_bool |-> TRUE, mask |-> <<>>, events |-> <<>>,
           variable |-> "", ascending |-> TRUE, reset_index |-> TRUE,
           hits |-> <<>>, selector |-> "none", unique |-> TRUE,
           these_hits |-> <<>>, c |-> <<>>, rows |-> <<>>,
           file |-> <<>>, branches |-> <<>>, empty_branches |-> <<>>,
           args |-> <<>>]

\* the keyword arguments of trim_hits / filter_hits: a value list, a lower
\* and an upper limit (each optional) and the invert flag
Cond(has_values, values, has_gt, has_lt, invert) ==
    [has_values |-> has_values, values |-> values,
     has_gt |-> has_gt, greater_than |-> 0,
     has_lt |-> has_lt, less_than |-> 1, invert |-> invert]

NoCondition == Cond(FALSE, {}, FALSE, FALSE, FALSE)

\* the trim_hits calls: by hit type (signal, background, either), by time
\* (later than 0, earlier than 1), dropping hit index 1, without any
\* condition, and on a column the table does not have
TrimArgs(t) ==
    {[variable |-> hit_type_name, c |-> c] :
        c \in {Cond(TRUE, {1}, FALSE, FALSE, FALSE), Cond(TRUE, {1}, FALSE, FALSE, TRUE),
               Cond(TRUE, {0, 1}, FALSE, FALSE, FALSE),
               NoCondition, Cond(FALSE, {}, FALSE, FALSE, TRUE)}}
    \cup {[variable |-> hits_index_name, c |-> Cond(TRUE, {1}, FALSE, FALSE, TRUE)]}
    \cup {[variable |-> v, c |-> c] :
            v \in SeqRange(t.all_branches) \cap {time_name},
            c \in {Cond(FALSE, {}, TRUE, FALSE, FALSE), Cond(FALSE, {}, FALSE, TRUE, FALSE)}}
    \cup {[variable |-> unknown_name, c |-> c] :
            c \in {Cond(TRUE, {1}, FALSE, FALSE, FALSE), NoCondition}}

\* the columns sort_hits is called with
SortVariables(t) ==
    (SeqRange(t.all_branches) \ {hits_index_name, event_index_name}) \cup {unknown_name}

\* the index lists trim_events is called with: no index, one index (an event
\* of the table or the first index past its end) or two events of the table
\* in any order, repeats included
TrimSelections(t) ==
    {<<>>} \cup {<<a>> : a \in 0..t.n_events}
           \cup {<<a, b>> : a \in 0..(t.n_events - 1), b \in 0..(t.n_events - 1)}

\* rows handed to add_hits: same columns as the table, with their own stored
\* hit and event indices
NewRow(t, hit_type, event_index, time) ==
    [b \in SeqRange(t.all_branches) |->
        CASE b = hit_type_name -> hit_type
          [] b = key_name -> 1
          [] b = hits_index_name -> 0
          [] b = event_index_name -> event_index
          [] OTHER -> time]

\* the rows data_import_sample merges in are background hits (hit type 0);
\* the stored event index is negative, an event of the table, or past its end
NewRows(t) ==
    {NewRow(t, 0, event_index, time) :
        event_index \in {-1, 0, t.n_events + 1},
        time \in IF has_time_name(t) THEN Times ELSE {0}}

(* ----------------------------- state machine --------------------------- *)
Init ==
    /\ \E use_evt_idx \in BOOLEAN :
       \E event_data \in (IF use_evt_idx THEN KeyColumns ELSE CountColumns) :
         LET n == IF use_evt_idx THEN Len(event_data) ELSE SeqSum(event_data)
         IN \E hit_types \in [1..n -> HitTypes] :
              \/ tab = FlatHitsInit(use_evt_idx, event_data, hit_types,
                                    hit_types, FlatBranches)
              \/ \E times \in [1..n -> Times] :
                    tab = GeomHitsInit(use_evt_idx, event_data, hit_types, times)
    /\ pre = tab
    /\ call = NoCall
    /\ err = "none"
    /\ ncalls = 0

\* trim_hits(variable, values, greater_than, less_than, invert)
TrimHits ==
    /\ err = "none"
    /\ ncalls < MaxCalls
    /\ ncalls' = ncalls + 1
    /\ \E a \in TrimArgs(tab) :
       LET variable == a.variable
           c == a.c
       IN
         /\ pre' = tab
         /\ IF reads_column(c) /\ variable \notin SeqRange(tab.all_branches)
            THEN \* these_hits[variable] raises before anything is assigned
                 /\ tab' = tab
                 /\ err' = "ValueError"
                 /\ call' = [NoCall EXCEPT !.name = "trim_hits"]
            ELSE LET m == get_mask(tab.data, variable, c)
                 IN IF m.is_bool
                    THEN /\ tab' = trim_hits(tab, TakeMask(tab.data, m.mask))
                         /\ err' = "none"
                         /\ call' = [NoCall EXCEPT !.name = "trim_hits",
                                                   !.mask = m.mask]
                    ELSE \* data[np.ones(n)]: a float index array is either
                         \* rejected or cast to the integer index 1 for every
                         \* row, depending on the numpy build
                         /\ call' = [NoCall EXCEPT !.name = "trim_hits",
                                                   !.is_bool = FALSE,
                                                   !.mask = m.mask]
                         /\ \/ /\ tab' = tab
                               /\ err' = "IndexError"
                            \/ /\ Len(tab.data) # 1
                               /\ tab' = trim_hits(tab,
                                     [i \in DOMAIN tab.data |-> tab.data[2]])
                               /\ err' = "none"

\* trim_events(events)
TrimEvents ==
    /\ err = "none"
    /\ ncalls < MaxCalls
    /\ ncalls' = ncalls + 1
    /\ \E events \in TrimSelections(tab) :
         /\ pre' = tab
         /\ call' = [NoCall EXCEPT !.name = "trim_events", !.events = events]
         /\ IF \E k \in DOMAIN events : ~ValidIndex(events[k], tab.n_events)
            THEN \* self.event_to_hits[events] raises
                 /\ tab' = tab
                 /\ err' = "IndexError"
            ELSE IF events = <<>>
            THEN \* np.concatenate of no arrays raises
                 /\ tab' = tab
                 /\ err' = "ValueError"
            ELSE /\ tab' = trim_events(tab, events)
                 /\ err' = "none"

\* sort_hits(variable, ascending, reset_index)
SortHits ==
    /\ err = "none"
    /\ ncalls < MaxCalls
    /\ ncalls' = ncalls + 1
    /\ \E variable \in SortVariables(tab) :
       \E ascending \in BOOLEAN, reset_index \in BOOLEAN :
         /\ pre' = tab
         /\ call' = [NoCall EXCEPT !.name = "sort_hits", !.variable = variable,
                                   !.ascending = ascending,
                                   !.reset_index = reset_index]
         /\ IF variable \notin SeqRange(tab.all_branches) /\ tab.n_events > 0
            THEN \* argsort(order=variable) raises in the first iteration
                 /\ tab' = tab
                 /\ err' = "ValueError"
            ELSE IF variable \notin SeqRange(tab.all_branches)
            THEN \* no event: the loop body never runs
                 /\ tab' = IF reset_index THEN generate_indexes(tab) ELSE tab
                 /\ err' = "none"
            ELSE /\ tab' = sort_hits(tab, variable, ascending, reset_index)
                 /\ err' = "none"

\* add_hits(hits)
AddHits ==
    /\ err = "none"
    /\ ncalls < MaxCalls
    /\ ncalls' = ncalls + 1
    /\ \E hits \in SeqsUpTo(NewRows(tab), 1) :
         /\ pre' = tab
         /\ call' = [NoCall EXCEPT !.name = "add_hits", !.hits = hits]
         /\ IF ~has_time_name(tab)
            THEN \* line 457 has replaced self.data when self.time_name raises
                 /\ tab' = [tab EXCEPT !.data = tab.data \o hits]
                 /\ err' = "AttributeError"
            ELSE LET sorted == add_hits_sorted(tab, hits)
                 IN IF \E i \in DOMAIN sorted.data :
                          sorted.data[i][event_index_name] < 0
                    THEN \* np.bincount rejects a negative event index
                         /\ tab' = sorted
                         /\ err' = "ValueError"
                    ELSE /\ tab' = reset_event_to_n_hits(sorted)
                         /\ err' = "none"

Next == TrimHits \/ TrimEvents \/ SortHits \/ AddHits

Spec == Init /\ [][Next]_vars

\* Scenario A of the specification: a table read from the hit-count column
\* [3, 0, 2] (use_evt_idx = False), with any hit types
ScenarioCounts == <<3, 0, 2>>

InitScenario ==
    /\ \E hit_types \in [1..SeqSum(ScenarioCounts) -> HitTypes] :
          \/ tab = FlatHitsInit(FALSE, ScenarioCounts, hit_types, hit_types,
                                FlatBranches)
          \/ tab = GeomHitsInit(FALSE, ScenarioCounts, hit_types,
                                [h \in 1..SeqSum(ScenarioCounts) |-> 0])
    /\ pre = tab
    /\ call = NoCall
    /\ err = "none"
    /\ ncalls = 0

SpecScenario == InitScenario /\ [][Next]_vars

(* ------------------------------- claims -------------------------------- *)
\* a row without its two derived index columns
StripIdx(row) ==
    [b \in DOMAIN row \ {hits_index_name, event_index_name} |-> row[b]]

StripAll(rows) == [i \in DOMAIN rows |-> StripIdx(rows[i])]

NonZero(counts) == SelectSeq(counts, LAMBDA c : c > 0)

Returned(name) == call.name = name /\ err = "none"

\* EventIndex invariants 1-3 plus the row count of data
LookupTablesConsistent(t) ==
    /\ Len(t.event_to_hits) = Len(t.event_to_n_hits)
    /\ \A e \in DOMAIN t.event_to_hits :
         /\ Len(t.event_to_hits[e]) = t.event_to_n_hits[e]
         /\ \A k \in 1..(Len(t.event_to_hits[e]) - 1) :
              t.event_to_hits[e][k + 1] = t.event_to_hits[e][k] + 1
    /\ Flatten(t.event_to_hits) = [h \in 1..t.n_hits |-> h - 1]
    /\ \A h \in DOMAIN t.hits_to_events : \A e \in DOMAIN t.event_to_hits :
         (t.hits_to_events[h] = e - 1) <=> (h - 1 \in SeqRange(t.event_to_hits[e]))
    /\ SeqSum(t.event_to_n_hits) = t.n_hits
    /\ t.n_hits = Len(t.hits_to_events)
    /\ t.n_hits = Len(t.data)
    /\ t.n_events = Len(t.event_to_n_hits)

\* invariant 4: the two derived columns
HitIndexInPlace(t) == \A i \in DOMAIN t.data : t.data[i][hits_index_name] = i - 1
EventIndexInPlace(t) == Column(t.data, event_index_name) = t.hits_to_events

\* C1: after construction and after any sequence of trim_hits / trim_events /
\* sort_hits / add_hits calls the lookup tables are consistent: every
\* event_to_hits[e] is a contiguous ascending range of length
\* event_to_n_hits[e], the ranges in event order give 0..N-1 once each,
\* hits_to_events[h] = e iff h is in event_to_hits[e], and
\* sum(event_to_n_hits) = n_hits = len(hits_to_events) = rows of data,
\* n_events = len(event_to_n_hits); counts [3,0,2] give [0,0,0,2,2],
\* [[0,1,2],[],[3,4]], N = 5, E = 3.
C1_LookupTablesConsistent ==
    /\ LookupTablesConsistent(tab)
    /\ tab.event_to_n_hits = ScenarioCounts =>
         /\ tab.hits_to_events = <<0, 0, 0, 2, 2>>
         /\ tab.event_to_hits = <<(<<0, 1, 2>>), (<<>>), (<<3, 4>>)>>
         /\ tab.n_hits = 5 /\ tab.n_events = 3

\* C2 as stated: after every mutating operation that returns, sort_hits with
\* reset_index=False included, hit_index of row i is i and event_index equals
\* hits_to_events.
C2_IndexColumnsAlways ==
    err = "none" => HitIndexInPlace(tab) /\ EventIndexInPlace(tab)

\* the hit_index values found in the range of event e (0-based)
HitIndexesOf(t, e) ==
    {t.data[h + 1][hits_index_name] : h \in SeqRange(t.event_to_hits[e + 1])}

\* C2 amended: after construction and after every mutating operation that
\* returns, event_index equals hits_to_events; hit_index of row i is i unless
\* the last operation was sort_hits with reset_index=False, after which every
\* event's range holds the same hit_index values as before the call.
C2_IndexColumnsUnlessNotReset ==
    err = "none" =>
        /\ EventIndexInPlace(tab)
        /\ IF call.name = "sort_hits" /\ ~call.reset_index
           THEN \A e \in 0..(tab.n_events - 1) :
                    HitIndexesOf(tab, e) = HitIndexesOf(pre, e)
           ELSE HitIndexInPlace(tab)

\* a trim has renumbered events and hits, and both columns follow
C2_Witness ==
    /\ Returned("trim_hits")
    /\ Len(tab.data) > 0
    /\ tab.n_events < pre.n_events
    /\ Column(tab.data, event_index_name) # Column(pre.data, event_index_name)
    /\ HitIndexInPlace(tab)

\* C10: a mutating operation that fails leaves the table exactly in its
\* pre-call state (data, event_to_n_hits, hits_to_events, event_to_hits,
\* n_hits, n_events), add_hits on a table without a time column included.
C10_FailureLeavesTableUnchanged == err # "none" => tab = pre

\* the 0-based pre-call positions of the rows a boolean mask keeps
KeptPositions == TruePositions(call.mask, 1)

\* per pre-call event, the number of its hits that pass the mask
SurvivorsPerEvent ==
    [e \in DOMAIN pre.event_to_hits |->
        Cardinality({h \in SeqRange(pre.event_to_hits[e]) : call.mask[h + 1]})]

MaskedTrim == Returned("trim_hits") /\ call.is_bool

\* C3: trim_hits called with conditions leaves exactly the pre-call rows that
\* pass the mask, in their pre-call order (only hit_index / event_index are
\* re-derived); the hit count of every surviving event is the number of its
\* pre-call hits that passed, and events keep their relative order.
C3_TrimHitsKeepsPassingRows ==
    MaskedTrim =>
        /\ Len(tab.data) = Len(KeptPositions)
        /\ \A k \in DOMAIN tab.data :
             StripIdx(tab.data[k]) = StripIdx(pre.data[KeptPositions[k] + 1])
        /\ tab.event_to_n_hits = NonZero(SurvivorsPerEvent)
        /\ \A k \in DOMAIN tab.data : \A l \in DOMAIN tab.data :
             LET ek == pre.hits_to_events[KeptPositions[k] + 1]
                 el == pre.hits_to_events[KeptPositions[l] + 1]
             IN /\ (tab.hits_to_events[k] = tab.hits_to_events[l]) <=> (ek = el)
                /\ (tab.hits_to_events[k] < tab.hits_to_events[l]) <=> (ek < el)

\* a trim that removes a hit of one event and keeps hits of two events
C3_Witness ==
    /\ MaskedTrim
    /\ \E h \in DOMAIN call.mask : ~call.mask[h]
    /\ tab.n_events >= 2
    /\ tab.event_to_n_hits # pre.event_to_n_hits

ScenarioMask == <<TRUE, FALSE, TRUE, TRUE, TRUE>>

\* C4: trim_hits applies one empty-event policy: after it no event is empty,
\* whether the event lost its hits in the call or had none before it, and E
\* is the number of events with a surviving hit; removing hit index 1 from a
\* table with event_to_n_hits = [3,0,2] leaves counts [2,2], E = 2.
C4_TrimHitsDropsEveryEmptyEvent ==
    /\ Returned("trim_hits") =>
         \A e \in DOMAIN tab.event_to_n_hits : tab.event_to_n_hits[e] > 0
    /\ MaskedTrim =>
         /\ tab.n_events =
                Cardinality({e \in DOMAIN SurvivorsPerEvent : SurvivorsPerEvent[e] > 0})
         /\ (pre.event_to_n_hits = ScenarioCounts /\ call.mask = ScenarioMask) =>
                /\ tab.event_to_n_hits = <<2, 2>>
                /\ tab.n_events = 2
                /\ tab.n_hits = 4

\* scenario B: hit index 1 removed from the table with counts [3,0,2]
C4_Witness ==
    /\ MaskedTrim
    /\ pre.event_to_n_hits = ScenarioCounts
    /\ call.mask = ScenarioMask
    /\ tab.n_events = 2

AcceptAllTrim ==
    MaskedTrim /\ \A h \in DOMAIN call.mask : call.mask[h]

RowsOfEvent(t, e) ==
    TakeMask(t.data, [h \in DOMAIN t.data |-> t.hits_to_events[h] = e])

\* C6 as stated: trim_events keeps only the hits of the listed events, and
\* the kept events and hits stay in their pre-call table order whatever the
\* order of the indices in the argument.
C6_TrimEventsKeepsTableOrder ==
    Returned("trim_events") =>
        LET listed == SeqRange(call.events)
        IN /\ StripAll(tab.data) = StripAll(TakeMask(pre.data,
                  [h \in DOMAIN pre.data |-> pre.hits_to_events[h] \in listed]))
           /\ tab.event_to_n_hits = TakeMask(pre.event_to_n_hits,
                  [e \in DOMAIN pre.event_to_n_hits |-> e - 1 \in listed])

\* C6 amended: trim_events keeps only the hits of the listed events; the kept
\* events appear in the order in which their indices are listed (an index
\* listed twice keeps its event twice), and inside each event the hits keep
\* their pre-call order.
C6_TrimEventsKeepsListedOrder ==
    Returned("trim_events") =>
        /\ StripAll(tab.data) = StripAll(Flatten(
               [k \in DOMAIN call.events |-> RowsOfEvent(pre, call.events[k])]))
        /\ tab.event_to_n_hits =
               [k \in DOMAIN call.events |-> pre.event_to_n_hits[call.events[k] + 1]]
        /\ tab.n_events = Len(call.events)

\* two events with hits listed in descending order
C6_Witness ==
    /\ Returned("trim_events")
    /\ Len(call.events) = 2
    /\ call.events[1] > call.events[2]
    /\ \A e \in DOMAIN tab.event_to_n_hits : tab.event_to_n_hits[e] > 0

\* the rows of t in the range of event e (0-based), in table order
RangeRows(t, e) == TakeIdx(t.data, t.event_to_hits[e + 1])

\* rows in the order a stable sort by the single column `variable` gives
StableSorted(rows, variable, ascending) ==
    LET n == Len(rows)
        Before(j, i) ==
            \/ IF ascending THEN rows[j][variable] < rows[i][variable]
                            ELSE rows[j][variable] > rows[i][variable]
            \/ rows[j][variable] = rows[i][variable] /\ j < i
        Rank(i) == Cardinality({j \in 1..n : Before(j, i)})
    IN [k \in 1..n |-> rows[CHOOSE i \in 1..n : Rank(i) = k - 1]]

\* the same row, the hit index aside when sort_hits has reset it
SameRow(a, b) ==
    IF call.reset_index
    THEN [a EXCEPT ![hits_index_name] = 0] = [b EXCEPT ![hits_index_name] = 0]
    ELSE a = b

SortKeepsShape ==
    /\ tab.event_to_n_hits = pre.event_to_n_hits
    /\ tab.event_to_hits = pre.event_to_hits
    /\ tab.hits_to_events = pre.hits_to_events
    /\ tab.n_events = pre.n_events
    /\ tab.n_hits = pre.n_hits
    /\ Column(tab.data, event_index_name) = Column(pre.data, event_index_name)

\* C7 as stated: sort_hits sorts each event independently: each event's
\* range holds the rows it held before, ordered by the column (non-decreasing
\* if ascending, non-increasing otherwise), rows with equal values in their
\* pre-call relative order; no row changes event and event_to_n_hits,
\* n_events and n_hits are unchanged.
C7_SortHitsIsStable ==
    Returned("sort_hits") =>
        /\ SortKeepsShape
        /\ \A e \in 0..(tab.n_events - 1) :
             LET old == StableSorted(RangeRows(pre, e), call.variable, call.ascending)
                 new == RangeRows(tab, e)
             IN /\ Len(new) = Len(old)
                /\ \A k \in DOMAIN new : SameRow(new[k], old[k])

Bijections(n) == {p \in [1..n -> 1..n] : \A i, j \in 1..n : p[i] = p[j] => i = j}

\* C7 amended: sort_hits sorts each event independently: each event's range
\* holds the rows it held before, ordered by the column (non-decreasing if
\* ascending, non-increasing otherwise); rows with equal values are ordered
\* by the remaining columns in schema order (hit type, event key, hit_index,
\* ...), ascending or descending like the column itself, not by their
\* pre-call position; no row changes event and event_to_n_hits, n_events and
\* n_hits are unchanged.
C7_SortHitsOrdersByAllColumns ==
    Returned("sort_hits") =>
        /\ SortKeepsShape
        /\ \A e \in 0..(tab.n_events - 1) :
             LET old == RangeRows(pre, e)
                 new == RangeRows(tab, e)
                 n == Len(old)
                 names == <<call.variable>> \o
                     SelectSeq(tab.all_branches, LAMBDA b : b # call.variable)
             IN /\ Len(new) = n
                /\ \E p \in Bijections(n) :
                     /\ \A k \in 1..n : SameRow(new[k], old[p[k]])
                     /\ \A k \in 1..(n - 1) :
                          /\ IF call.ascending
                             THEN old[p[k]][call.variable] <= old[p[k + 1]][call.variable]
                             ELSE old[p[k]][call.variable] >= old[p[k + 1]][call.variable]
                          /\ IF call.ascending
                             THEN RecLess(old[p[k]], old[p[k + 1]], names)
                             ELSE RecLess(old[p[k + 1]], old[p[k]], names)

\* an ascending sort that swaps two rows with equal values of the column
C7_Witness ==
    /\ Returned("sort_hits")
    /\ call.ascending
    /\ \E e \in 0..(tab.n_events - 1) :
         LET old == RangeRows(pre, e)
             new == RangeRows(tab, e)
         IN /\ Len(old) = 2
            /\ old[1][call.variable] = old[2][call.variable]
            /\ SameRow(new[1], old[2])
            /\ ~SameRow(new[1], old[1])

\* C8: after sort_hits(field, reset_index=True) the hit_index column is
\* 0..N-1 in flat order and event_index[h] = hits_to_events[h] for every h.
C8_SortResetsIndexes ==
    (Returned("sort_hits") /\ call.reset_index) =>
        /\ Column(tab.data, hits_index_name) = [h \in 1..tab.n_hits |-> h - 1]
        /\ \A h \in DOMAIN tab.data :
             tab.data[h][event_index_name] = tab.hits_to_events[h]

\* a sort with reset_index=True that has moved rows
C8_Witness ==
    /\ Returned("sort_hits")
    /\ call.reset_index
    /\ StripAll(tab.data) # StripAll(pre.data)

\* number of positions of seq that hold x
Occurrences(seq, x) == Cardinality({i \in DOMAIN seq : seq[i] = x})

SameBag(a, b) ==
    /\ Len(a) = Len(b)
    /\ \A x \in SeqRange(a) \cup SeqRange(b) : Occurrences(a, x) = Occurrences(b, x)

\* rows tagged with the rank of their event index among those present
TaggedRows(rows) ==
    LET present == SeqRange(Column(rows, event_index_name))
    IN [i \in DOMAIN rows |->
           <<StripIdx(rows[i]),
             Cardinality({v \in present : v < rows[i][event_index_name]})>>]

\* C9: add_hits leaves exactly the pre-call rows plus the appended rows
\* (N_new = N_old + len(rows), nothing lost or duplicated), ordered by
\* (event_index, time) so that each event's hits are contiguous and
\* non-decreasing in time; event boundaries, counters and both index columns
\* are re-derived from the combined table, not taken from the stored
\* hit_index of the appended rows.
C9_AddHitsMergesAndRebuilds ==
    Returned("add_hits") =>
        /\ tab.n_hits = pre.n_hits + Len(call.hits)
        /\ SameBag(TaggedRows(tab.data), TaggedRows(pre.data \o call.hits))
        /\ \A h \in 1..(Len(tab.data) - 1) :
             \/ tab.data[h][event_index_name] < tab.data[h + 1][event_index_name]
             \/ /\ tab.data[h][event_index_name] = tab.data[h + 1][event_index_name]
                /\ tab.data[h][time_name] <= tab.data[h + 1][time_name]
        /\ LookupTablesConsistent(tab)
        /\ HitIndexInPlace(tab) /\ EventIndexInPlace(tab)
        /\ \A e \in DOMAIN tab.event_to_n_hits : tab.event_to_n_hits[e] > 0

\* a row appended with stored hit_index 0 that ends up in front of older hits
C9_Witness ==
    /\ Returned("add_hits")
    /\ Len(call.hits) = 1
    /\ Len(pre.data) >= 2
    /\ StripIdx(tab.data[2]) = StripIdx(call.hits[1])
    /\ StripIdx(tab.data[2]) # StripIdx(pre.data[2])
    /\ tab.data[2][hits_index_name] = 1

(* ------------------------------ queries -------------------------------- *)
\* np.unique of an integer collection: its distinct values, ascending
np_unique(events) ==
    LET S == SeqRange(events)
    IN [k \in 1..Cardinality(S) |->
           CHOOSE x \in S : Cardinality({y \in S : y < x}) = k - 1]

\* FlatHits.get_events: selector is "none" (events=None), "int" (events is
\* the one-element sequence holding the index) or "list"
get_events(t, selector, events, unique) ==
    IF selector = "none" THEN [err |-> "none", rows |-> t.data]
    ELSE IF \E k \in DOMAIN events : ~ValidIndex(events[k], t.n_events)
    THEN \* self.event_to_hits[evt] raises
         [err |-> "IndexError", rows |-> <<>>]
    ELSE IF selector = "int"
    THEN [err |-> "none",
          rows |-> TakeIdx(t.data, TakeIdx(t.event_to_hits, events)[1])]
    ELSE LET evts == IF unique THEN np_unique(events) ELSE events
         IN IF evts = <<>>
            THEN \* np.concatenate of no arrays raises
                 [err |-> "ValueError", rows |-> <<>>]
            ELSE [err |-> "none",
                  rows |-> TakeIdx(t.data,
                               Flatten(TakeIdx(t.event_to_hits, evts)))]

\* the selectors get_events is called with: None, a single index, or a list
\* of up to two indices; indices run from -1 to the first one past the end
Selectors(t) ==
    {[selector |-> "none", events |-> <<>>, unique |-> TRUE]}
    \cup {[selector |-> "int", events |-> <<a>>, unique |-> TRUE] :
             a \in (-1)..t.n_events}
    \cup {[selector |-> "list", events |-> e, unique |-> u] :
             e \in SeqsUpTo((-1)..t.n_events, 2), u \in BOOLEAN}

\* A query does not assign the table, so a query made after another query
\* sees the table the first one saw: one query per table state is modelled.
QueryNames == {"get_events", "filter_hits", "CyDetHits.get_hit_types",
               "GeomHits.get_hit_types"}
NotQueried == call.name \notin QueryNames

\* get_events(events, unique): a query, the table is not assigned
GetEvents ==
    /\ err = "none"
    /\ NotQueried
    /\ \E s \in Selectors(tab) :
         LET r == get_events(tab, s.selector, s.events, s.unique)
         IN /\ call' = [NoCall EXCEPT !.name = "get_events",
                                      !.selector = s.selector,
                                      !.events = s.events,
                                      !.unique = s.unique,
                                      !.rows = r.rows]
            /\ err' = r.err
    /\ pre' = tab
    /\ UNCHANGED <<tab, ncalls>>

\* FlatHits.filter_hits: the outcomes of these_hits[mask]. A boolean mask
\* selects rows; the float mask np.ones(n) built when no condition is given
\* is either rejected or cast to the integer index 1 for every row,
\* depending on the numpy build.
filter_hits(these_hits, variable, c) ==
    IF reads_column(c) /\ these_hits # <<>> /\ variable \notin DOMAIN these_hits[1]
    THEN {[err |-> "ValueError", rows |-> <<>>]}
    ELSE LET m == get_mask(these_hits, variable, c)
         IN IF m.is_bool
            THEN {[err |-> "none", rows |-> TakeMask(these_hits, m.mask)]}
            ELSE {[err |-> "IndexError", rows |-> <<>>]}
                 \cup {[err |-> "none",
                        rows |-> [i \in DOMAIN these_hits |-> these_hits[2]]] :
                          x \in IF Len(these_hits) # 1 THEN {1} ELSE {}}

\* the rows filter_hits is called with: the whole table or one event of it
HitSelections(t) ==
    {t.data} \cup {TakeIdx(t.data, t.event_to_hits[e]) : e \in 1..t.n_events}

\* filter_hits(these_hits, variable, values, greater_than, less_than, invert)
FilterHits ==
    /\ err = "none"
    /\ NotQueried
    /\ \E a \in TrimArgs(tab) : \E these_hits \in HitSelections(tab) :
       \E r \in filter_hits(these_hits, a.variable, a.c) :
         /\ call' = [NoCall EXCEPT !.name = "filter_hits",
                                   !.variable = a.variable,
                                   !.c = a.c,
                                   !.these_hits = these_hits,
                                   !.rows = r.rows]
         /\ err' = r.err
    /\ pre' = tab
    /\ UNCHANGED <<tab, ncalls>>

NextQuery == GetEvents \/ FilterHits

\* the queries on every table a source file gives
SpecQuery == Init /\ [][NextQuery]_vars

(* --------------------------- claims on queries ------------------------- *)
\* every index of the last call's selector names an event of the table
SelectorInRange ==
    \A k \in DOMAIN call.events : 0 <= call.events[k] /\ call.events[k] < pre.n_events

\* C11: get_events(selector) returns all rows for selector None, the rows of
\* event_to_hits[e] for a single index e, and for a collection the rows of
\* the selected events in flat-table order, every selected event once
\* (duplicates are ignored unless unique=False is passed); the table is not
\* modified.
C11_GetEventsSelectsRows ==
    (call.name = "get_events" /\ SelectorInRange) =>
        /\ err = "none"
        /\ tab = pre
        /\ call.selector = "none" => call.rows = tab.data
        /\ call.selector = "int" => call.rows = RangeRows(tab, call.events[1])
        /\ (call.selector = "list" /\ call.unique) =>
               call.rows = TakeMask(tab.data,
                   [h \in DOMAIN tab.data |->
                       tab.hits_to_events[h] \in SeqRange(call.events)])
        /\ (call.selector = "list" /\ ~call.unique) =>
               /\ Len(call.rows) = SeqSum([k \in DOMAIN call.events |->
                                      tab.event_to_n_hits[call.events[k] + 1]])
               /\ \A k \in DOMAIN call.rows :
                     tab.hits_to_events[call.rows[k][hits_index_name] + 1]
                         \in SeqRange(call.events)
               /\ \A k \in 1..(Len(call.rows) - 1) :
                     call.rows[k][hits_index_name] <= call.rows[k + 1][hits_index_name]

\* C12: get_events with an event index outside [0, E), alone or inside a
\* collection, fails with an out-of-range error and returns no rows.
C12_OutOfRangeFails ==
    (call.name = "get_events" /\ ~SelectorInRange) =>
        /\ err # "none"
        /\ call.rows = <<>>

\* the condition of the last filter_hits call, evaluated on one row
Passes(r) ==
    LET v == r[call.variable]
        c == call.c
    IN ((~c.has_values \/ v \in c.values)
          /\ (~c.has_gt \/ v > c.greater_than)
          /\ (~c.has_lt \/ v < c.less_than)) # c.invert

NoConditionGiven ==
    ~call.c.has_values /\ ~call.c.has_gt /\ ~call.c.has_lt /\ ~call.c.invert

\* C13: filter_hits(rows, field, values, greater_than, less_than, invert) is
\* pure: it returns, in input order, exactly the rows r for which
\* ((values not given or r[field] in values) AND (greater_than not given or
\* r[field] > greater_than) AND (less_than not given or r[field] < less_than))
\* XOR invert, and changes no state of the table.
C13_FilterHitsSelects ==
    (call.name = "filter_hits" /\ call.variable \in SeqRange(tab.all_branches)) =>
        /\ err = "none"
        /\ tab = pre
        /\ call.rows = SelectSeq(call.these_hits, Passes)

\* C14: filter_hits called with no condition (values, greater_than and
\* less_than absent, invert false) returns every input row exactly once in
\* input order.
C14_NoConditionIsIdentity ==
    (call.name = "filter_hits" /\ NoConditionGiven) =>
        /\ err = "none"
        /\ call.rows = call.these_hits

(* ------------------- lookup tables from raw counts --------------------- *)
\* largest number of entries of a raw hit-count column
MaxCounts == 3

\* a FlatHits object when _generate_event_to_n_hits_table has stored the
\* counts and no lookup table exists yet
RawTable(counts) ==
    [data |-> <<>>, all_branches |-> <<>>, event_to_n_hits |-> counts,
     hits_to_events |-> <<>>, event_to_hits |-> <<>>, n_hits |-> 0, n_events |-> 0]

\* hit-count columns as a file may hold them (use_evt_idx = False, the
\* column is taken as it is): negative entries included
RawCountColumns == SeqsUpTo((-1)..MaxHits, MaxCounts)

InitTables ==
    /\ \E counts \in RawCountColumns : tab = RawTable(counts)
    /\ pre = tab
    /\ call = NoCall
    /\ err = "none"
    /\ ncalls = 0

\* FlatHits._generate_lookup_tables on the stored counts
GenerateLookupTables ==
    /\ err = "none"
    /\ call.name = "init"
    /\ pre' = tab
    /\ call' = [NoCall EXCEPT !.name = "_generate_lookup_tables"]
    /\ IF SeqSum(tab.event_to_n_hits) < 0
       THEN \* np.zeros raises ValueError, which is caught and printed; the
            \* loop then assigns into hits_to_events, which was never bound
            /\ tab' = tab
            /\ err' = "UnboundLocalError"
       ELSE /\ tab' = generate_lookup_tables(tab)
            /\ err' = "none"
    /\ UNCHANGED ncalls

SpecTables == InitTables /\ [][GenerateLookupTables]_vars

\* C15: building the lookup tables from an event_to_n_hits sequence that
\* contains a negative count fails (also when the sum of the counts is
\* non-negative) instead of producing lookup tables.
C15_NegativeCountFails ==
    (call.name = "_generate_lookup_tables"
       /\ \E e \in DOMAIN pre.event_to_n_hits : pre.event_to_n_hits[e] < 0) =>
        /\ err # "none"
        /\ tab = pre

(* ----------------------- import of a source file ----------------------- *)
\* a hit-wise branch a caller may request (GeomHits asks for it by default)
edep_name == "Charge"

\* variant: a missing branch is reported, never fatal
check_for_branches_soft(available, branches, soft_check) ==
    [ok |-> SeqRange(branches) \subseteq available, err |-> "none"]

\* FlatHits._check_for_branches: are the branches in the file? A soft check
\* answers False for a missing branch, a hard check fails its assertion
check_for_branches(available, branches, soft_check) ==
    LET bad_request == ~(SeqRange(branches) \subseteq available)
    IN IF soft_check /\ bad_request THEN [ok |-> FALSE, err |-> "none"]
       ELSE IF bad_request THEN [ok |-> FALSE, err |-> "AssertionError"]
       ELSE [ok |-> TRUE, err |-> "none"]

\* FlatHits._add_name_to_branches
add_name_to_branches(available, name, branches, empty_branches) ==
    IF check_for_branches(available, <<name>>, TRUE).ok
    THEN [branches |-> branches \o <<name>>, empty_branches |-> empty_branches]
    ELSE [branches |-> branches, empty_branches |-> empty_branches \o <<name>>]

\* np.unique of a list of branch names: distinct names in alphabetical order
unique_names(names) ==
    SelectSeq(<<edep_name, hit_type_name>>, LAMBDA b : b \in SeqRange(names))

\* the object before FlatHits.__init__ has built anything
NoTable == RawTable(<<>>)

\* FlatHits.__init__ on a source file (use_evt_idx = True): the hit type is
\* added to the requested or to the empty branches, the key column and the
\* requested branches are checked and imported, and every empty branch
\* becomes a column of zeros behind the index columns
FlatHitsImport(file, branches, empty_branches) ==
    LET nb == add_name_to_branches(file.available, hit_type_name,
                                   branches, empty_branches)
        empties == unique_names(nb.empty_branches)
        all == nb.branches \o <<key_name, hits_index_name, event_index_name>>
                  \o empties
        zeros == [h \in DOMAIN file.event_data |-> 0]
    IN IF check_for_branches(file.available, <<key_name>>, FALSE).err # "none"
       THEN [err |-> "AssertionError", tab |-> NoTable]
       ELSE IF nb.branches # <<>>
               /\ check_for_branches(file.available, nb.branches, FALSE).err # "none"
       THEN [err |-> "AssertionError", tab |-> NoTable]
       ELSE [err |-> "none",
             tab |-> FlatHitsInit(TRUE, file.event_data,
                        IF hit_type_name \in SeqRange(empties)
                        THEN zeros ELSE file.hit_types,
                        IF edep_name \in SeqRange(empties)
                        THEN zeros ELSE file.charges,
                        all)]

\* source files: which of the three branches they hold, a sorted key column
\* and the hit-wise values of the two other branches
SourceFiles ==
    UNION {{[available |-> a, event_data |-> k, hit_types |-> ht, charges |-> ch] :
               a \in SUBSET {hit_type_name, key_name, edep_name},
               ht \in [1..Len(k) -> HitTypes],
               ch \in [1..Len(k) -> {1, 2}]} : k \in KeyColumns}

\* the branches / empty_branches arguments
BranchRequests ==
    {[branches |-> <<>>, empty_branches |-> <<>>],
     [branches |-> <<edep_name>>, empty_branches |-> <<>>],
     [branches |-> <<>>, empty_branches |-> <<edep_name>>]}

InitImport ==
    /\ tab = NoTable
    /\ pre = tab
    /\ call = NoCall
    /\ err = "none"
    /\ ncalls = 0

\* FlatHits(path, branches=..., empty_branches=...)
ConstructFlatHits ==
    /\ err = "none"
    /\ call.name = "init"
    /\ \E file \in SourceFiles : \E req \in BranchRequests :
         LET r == FlatHitsImport(file, req.branches, req.empty_branches)
         IN /\ tab' = r.tab
            /\ err' = r.err
            /\ call' = [NoCall EXCEPT !.name = "FlatHits",
                                      !.file = file,
                                      !.branches = req.branches,
                                      !.empty_branches = req.empty_branches]
    /\ pre' = tab
    /\ UNCHANGED ncalls

SpecImport == InitImport /\ [][ConstructFlatHits]_vars

\* the fields asked for in the last construction that the file does not hold
AbsentRequested ==
    (SeqRange(call.branches) \cup {hit_type_name}) \ call.file.available

ZeroColumn(b) ==
    /\ b \in SeqRange(tab.all_branches)
    /\ Column(tab.data, b) = [h \in 1..Len(call.file.event_data) |-> 0]

\* C16 as stated: during construction any requested field absent from the
\* source (any name in the branches argument, not only the hit-type field)
\* becomes a zero-filled column of length n_hits, and construction succeeds.
C16_AbsentFieldsZeroFilled ==
    (call.name = "FlatHits" /\ key_name \in call.file.available) =>
        /\ err = "none"
        /\ \A b \in AbsentRequested : ZeroColumn(b)

\* C16 amended: during construction the hit-type field, when absent from the
\* source, and every name passed in empty_branches become zero-filled
\* columns of length n_hits; a name in the branches argument (or the event
\* key) that is absent from the source makes construction fail with an
\* assertion error, and no table is built.
C16_AbsentFieldsZeroOrFail ==
    call.name = "FlatHits" =>
        LET f == call.file
            soft == SeqRange(call.empty_branches)
                       \cup ({hit_type_name} \ f.available)
        IN /\ (err = "none") <=>
                  /\ key_name \in f.available
                  /\ SeqRange(call.branches) \subseteq f.available
           /\ err # "none" => err = "AssertionError" /\ tab = NoTable
           /\ err = "none" =>
                  /\ SeqRange(tab.all_branches) =
                         SeqRange(call.branches) \cup soft \cup SeqRange(FlatBranches)
                  /\ tab.n_hits = Len(f.event_data)
                  /\ Len(tab.data) = tab.n_hits
                  /\ \A b \in soft : ZeroColumn(b)
                  /\ hit_type_name \in f.available =>
                         Column(tab.data, hit_type_name) = f.hit_types
                  /\ edep_name \in SeqRange(call.branches) =>
                         Column(tab.data, edep_name) = f.charges

\* a file without the hit type was imported with a requested branch it holds
C16_Witness ==
    /\ call.name = "FlatHits"
    /\ err = "none"
    /\ hit_type_name \notin call.file.available
    /\ call.branches = <<edep_name>>
    /\ tab.n_hits = MaxHits
    /\ ZeroColumn(hit_type_name)

(* ------------------------ geometry-backed tables ----------------------- *)
\* number of points of the detector geometry (geom.n_points)
NPoints == 2

\* value of the hit-type column that marks a signal hit
signal_coding == 1

\* the column of flat geometry ids
flat_name == "vol_id"

\* GeomHits.__init__: the flat-id column is appended behind the FlatHits
\* columns, the time column behind it
PointBranches == FlatBranches \o <<flat_name, time_name>>

\* the table with the column of flat ids added (flat_ids by hit position)
with_flat_ids(t, flat_ids) ==
    [t EXCEPT !.all_branches = PointBranches,
              !.data = [h \in DOMAIN t.data |->
                  [b \in DOMAIN t.data[h] \cup {flat_name} |->
                      IF b = flat_name THEN flat_ids[h] ELSE t.data[h][b]]]]

\* GeomHits.__init__ with its geometry column, then GeomHits._finalize_data
GeomPointsInit(use_evt_idx, event_data, hit_types, times, flat_ids) ==
    sort_hits(with_flat_ids(FlatHitsInit(use_evt_idx, event_data, hit_types,
                                         times, GeomBranches), flat_ids),
              time_name, TRUE, TRUE)

\* FlatHits.get_signal_hits (invert = FALSE) / get_background_hits (TRUE):
\* get_events with the default unique=True, then filter_hits on the hit type
get_typed_hits(t, selector, events, invert) ==
    LET g == get_events(t, selector, events, TRUE)
    IN IF g.err # "none" THEN g
       ELSE CHOOSE r \in filter_hits(g.rows, hit_type_name,
                Cond(TRUE, {signal_coding}, FALSE, FALSE, invert)) : TRUE

\* CyDetHits.get_hit_types: a vector over the geometry points, background
\* written first and signal over it
cydet_get_hit_types(t, selector, events) ==
    LET bkg == get_typed_hits(t, selector, events, TRUE)
        sig == get_typed_hits(t, selector, events, FALSE)
    IN IF bkg.err # "none" THEN bkg
       ELSE [err |-> "none",
             rows |-> [p \in 1..NPoints |->
                 IF p - 1 \in SeqRange(Column(sig.rows, flat_name)) THEN 1
                 ELSE IF p - 1 \in SeqRange(Column(bkg.rows, flat_name)) THEN 2
                 ELSE 0]]

\* GeomHits.get_hit_types: a vector over the hits of the table, written at
\* the stored hit indexes
geom_get_hit_types(t, selector, events) ==
    LET bkg == get_typed_hits(t, selector, events, TRUE)
        sig == get_typed_hits(t, selector, events, FALSE)
    IN IF bkg.err # "none" THEN bkg
       ELSE [err |-> "none",
             rows |-> [h \in 1..t.n_hits |->
                 IF h - 1 \in SeqRange(Column(sig.rows, hits_index_name)) THEN 1
                 ELSE IF h - 1 \in SeqRange(Column(bkg.rows, hits_index_name)) THEN 2
                 ELSE 0]]

InitGeom ==
    /\ \E use_evt_idx \in BOOLEAN :
       \E event_data \in (IF use_evt_idx THEN KeyColumns ELSE CountColumns) :
         LET n == IF use_evt_idx THEN Len(event_data) ELSE SeqSum(event_data)
         IN \E hit_types \in [1..n -> HitTypes], times \in [1..n -> Times],
               flat_ids \in [1..n -> 0..(NPoints - 1)] :
              tab = GeomPointsInit(use_evt_idx, event_data, hit_types, times,
                                   flat_ids)
    /\ pre = tab
    /\ call = NoCall
    /\ err = "none"
    /\ ncalls = 0

\* get_hit_types(events) of the tracker table (class CyDetHits)
CyDetGetHitTypes ==
    /\ err = "none"
    /\ NotQueried
    /\ \E s \in {x \in Selectors(tab) : x.unique} :
         LET r == cydet_get_hit_types(tab, s.selector, s.events)
         IN /\ call' = [NoCall EXCEPT !.name = "CyDetHits.get_hit_types",
                                      !.selector = s.selector,
                                      !.events = s.events,
                                      !.rows = r.rows]
            /\ err' = r.err
    /\ pre' = tab
    /\ UNCHANGED <<tab, ncalls>>

\* get_hit_types(events) of any other geometry-backed table (class GeomHits,
\* inherited unchanged by the hodoscope table CTHHits)
GeomGetHitTypes ==
    /\ err = "none"
    /\ NotQueried
    /\ \E s \in {x \in Selectors(tab) : x.unique} :
         LET r == geom_get_hit_types(tab, s.selector, s.events)
         IN /\ call' = [NoCall EXCEPT !.name = "GeomHits.get_hit_types",
                                      !.selector = s.selector,
                                      !.events = s.events,
                                      !.rows = r.rows]
            /\ err' = r.err
    /\ pre' = tab
    /\ UNCHANGED <<tab, ncalls>>

NextGeom == CyDetGetHitTypes \/ GeomGetHitTypes

SpecGeom == InitGeom /\ [][NextGeom]_vars

\* the rows of the events the last call selected
SelectedRows ==
    IF call.selector = "none" THEN tab.data
    ELSE TakeMask(tab.data, [h \in DOMAIN tab.data |->
             tab.hits_to_events[h] \in SeqRange(call.events)])

\* the value the specification gives geometry point p (0-based)
PointType(p) ==
    IF \E k \in DOMAIN SelectedRows :
          SelectedRows[k][flat_name] = p /\ SelectedRows[k][hit_type_name] = signal_coding
    THEN 1
    ELSE IF \E k \in DOMAIN SelectedRows : SelectedRows[k][flat_name] = p
    THEN 2 ELSE 0

\* C17: get_hit_types(selector) returns a vector over all geometry points:
\* 1 at every point touched by a signal hit of the selected events, 2 at
\* every point touched only by background hits, 0 elsewhere; this holds for
\* the tracker table and for every other geometry-backed table.
C17_HitTypesPerPoint ==
    (call.name \in {"CyDetHits.get_hit_types", "GeomHits.get_hit_types"}
       /\ err = "none" /\ SelectorInRange) =>
        call.rows = [p \in 1..NPoints |-> PointType(p - 1)]

(* ------------------- the pair view (class CDCHits) --------------------- *)
\* In this part `tab` is the pair object: its tracker table cydet, its
\* hodoscope table cth and its own event counter n_events.

\* the limits apply_timing_cut passes to trim_hits
cth_greater_than == 700
cth_less_than == 1100
cydet_greater_than == 700
cydet_less_than == 1620

\* hit times around the limits
CydetTimes == {700, 900}
CthTimes == {700, 900, 1100}

\* geom.point_layers: the layer of each geometry point (point p lies in layer p)
point_layers == [p \in 0..(NPoints - 1) |-> p]

\* CDCHits.__init__
CDCHitsInit(cydet_hits, cth_hits) ==
    [cydet |-> cydet_hits, cth |-> cth_hits,
     n_events |-> IF cydet_hits.n_events < cth_hits.n_events
                  THEN cydet_hits.n_events ELSE cth_hits.n_events]

\* FlatHits.trim_events with its failures: an index outside the table, or
\* no index at all (np.concatenate of no arrays)
try_trim_events(t, events) ==
    IF \E k \in DOMAIN events : ~ValidIndex(events[k], t.n_events)
    THEN [err |-> "IndexError", tab |-> t]
    ELSE IF events = <<>> THEN [err |-> "ValueError", tab |-> t]
    ELSE [err |-> "none", tab |-> trim_events(t, events)]

\* CDCHits.trim_events: the tracker first, then the hodoscope, then n_events
pair_trim_events(p, events) ==
    LET a == try_trim_events(p.cydet, events)
        b == try_trim_events(p.cth, events)
    IN IF a.err # "none" THEN [err |-> a.err, tab |-> p]
       ELSE IF b.err # "none"
       THEN [err |-> b.err, tab |-> [p EXCEPT !.cydet = a.tab]]
       ELSE [err |-> "none",
             tab |-> [cydet |-> a.tab, cth |-> b.tab, n_events |-> a.tab.n_events]]

\* the keyword arguments greater_than / less_than of a trim_hits call
Window(lower, upper) ==
    [Cond(FALSE, {}, TRUE, TRUE, FALSE) EXCEPT !.greater_than = lower,
                                                !.less_than = upper]

\* trim_hits(variable=time_name, less_than=..., greater_than=...)
trim_hits_by_time(t, lower, upper) ==
    trim_hits(t, TakeMask(t.data,
                          get_mask(t.data, time_name, Window(lower, upper)).mask))

\* CDCHits.apply_timing_cut: the four arguments are not read
apply_timing_cut(p, cth_lower, cth_upper, cydet_lower, cydet_upper) ==
    [p EXCEPT !.cth = trim_hits_by_time(p.cth, cth_greater_than, cth_less_than),
              !.cydet = trim_hits_by_time(p.cydet, cydet_greater_than,
                                          cydet_less_than)]

\* the events of 0..n-1 for which keep holds, ascending, or the failure of
\* the first event whose evaluation raises
scan_events(n, failed, keep) ==
    IF \E evt \in 0..(n - 1) : failed[evt]
    THEN [err |-> "IndexError", events |-> <<>>]
    ELSE [err |-> "none",
          events |-> TruePositions([e \in 1..n |-> keep[e - 1]], 1)]

\* number of signal hits of event evt, and whether asking for them raises
n_signal_hits(t, evt) == Len(get_typed_hits(t, "int", <<evt>>, FALSE).rows)
signal_hits_fail(t, evt) == get_typed_hits(t, "int", <<evt>>, FALSE).err # "none"

\* CDCHits.apply_cth_trigger: trigger_events is np.array of a Python list;
\* an empty one is a float array, which trim_events rejects as an index
\* (IndexError) or passes on to np.concatenate (ValueError), by numpy build
apply_cth_trigger(p) ==
    LET scan == scan_events(p.n_events,
                    [evt \in 0..(p.n_events - 1) |-> signal_hits_fail(p.cth, evt)],
                    [evt \in 0..(p.n_events - 1) |-> n_signal_hits(p.cth, evt) # 0])
    IN IF scan.err # "none" THEN {[err |-> scan.err, tab |-> p]}
       ELSE IF scan.events = <<>>
       THEN {[err |-> "IndexError", tab |-> p], [err |-> "ValueError", tab |-> p]}
       ELSE {pair_trim_events(p, scan.events)}

\* CDCHits.apply_n_hits_cut
apply_n_hits_cut(p, n_hits) ==
    LET n == p.cydet.n_events
        scan == scan_events(n,
                    [evt \in 0..(n - 1) |-> signal_hits_fail(p.cydet, evt)],
                    [evt \in 0..(n - 1) |-> n_signal_hits(p.cydet, evt) >= n_hits])
    IN IF scan.err # "none" THEN [err |-> scan.err, tab |-> p]
       ELSE pair_trim_events(p, scan.events)

\* the largest layer among the signal wires of event evt, -1 without any
event_max_layer(t, evt) ==
    LET sig_wires == SeqRange(Column(
            get_typed_hits(t, "int", <<evt>>, FALSE).rows, flat_name))
    IN IF sig_wires = {} THEN -1
       ELSE SetMax({point_layers[w] : w \in sig_wires})

\* CDCHits.apply_max_layer_cut
apply_max_layer_cut(p, ideal_layer) ==
    LET scan == scan_events(p.n_events,
                    [evt \in 0..(p.n_events - 1) |-> signal_hits_fail(p.cydet, evt)],
                    [evt \in 0..(p.n_events - 1) |->
                        event_max_layer(p.cydet, evt) >= ideal_layer])
    IN IF scan.err # "none" THEN [err |-> scan.err, tab |-> p]
       ELSE pair_trim_events(p, scan.events)

\* tracker tables: sorted key column, hit types, times and flat ids
CydetTables ==
    UNION {{GeomPointsInit(TRUE, k, ht, tm, fl) :
               ht \in [1..Len(k) -> HitTypes],
               tm \in [1..Len(k) -> CydetTimes],
               fl \in [1..Len(k) -> 0..(NPoints - 1)]} : k \in KeyColumns}

\* hodoscope tables: sorted key column, hit types and times
CthTables ==
    UNION {{GeomHitsInit(TRUE, k, ht, tm) :
               ht \in [1..Len(k) -> HitTypes],
               tm \in [1..Len(k) -> CthTimes]} : k \in KeyColumns}

InitPair ==
    /\ \E cydet_hits \in CydetTables : \E cth_hits \in CthTables :
          tab = CDCHitsInit(cydet_hits, cth_hits)
    /\ pre = tab
    /\ call = NoCall
    /\ err = "none"
    /\ ncalls = 0

\* the arguments apply_timing_cut is called with: its defaults, and the
\* limits its body uses
TimingArgs ==
    {[cth_lower |-> 700, cth_upper |-> 110, cydet_lower |-> 700, cydet_upper |-> 1620],
     [cth_lower |-> 700, cth_upper |-> 1100, cydet_lower |-> 700, cydet_upper |-> 1620]}

\* pair.trim_events(events)
PairTrimEvents ==
    /\ err = "none"
    /\ ncalls < MaxCalls
    /\ ncalls' = ncalls + 1
    /\ pre' = tab
    /\ \E events \in TrimSelections(tab) :
         LET r == pair_trim_events(tab, events)
         IN /\ tab' = r.tab
            /\ err' = r.err
            /\ call' = [NoCall EXCEPT !.name = "pair.trim_events",
                                      !.events = events]

\* pair.apply_timing_cut(cth_lower, cth_upper, cydet_lower, cydet_upper)
ApplyTimingCut ==
    /\ err = "none"
    /\ ncalls < MaxCalls
    /\ ncalls' = ncalls + 1
    /\ pre' = tab
    /\ \E a \in TimingArgs :
         /\ tab' = apply_timing_cut(tab, a.cth_lower, a.cth_upper,
                                    a.cydet_lower, a.cydet_upper)
         /\ err' = "none"
         /\ call' = [NoCall EXCEPT !.name = "apply_timing_cut", !.args = a]

\* pair.apply_cth_trigger()
ApplyCthTrigger ==
    /\ err = "none"
    /\ ncalls < MaxCalls
    /\ ncalls' = ncalls + 1
    /\ pre' = tab
    /\ \E r \in apply_cth_trigger(tab) :
         /\ tab' = r.tab
         /\ err' = r.err
         /\ call' = [NoCall EXCEPT !.name = "apply_cth_trigger"]

\* pair.apply_n_hits_cut(n_hits)
ApplyNHitsCut ==
    /\ err = "none"
    /\ ncalls < MaxCalls
    /\ ncalls' = ncalls + 1
    /\ pre' = tab
    /\ \E n_hits \in 1..MaxHits :
         LET r == apply_n_hits_cut(tab, n_hits)
         IN /\ tab' = r.tab
            /\ err' = r.err
            /\ call' = [NoCall EXCEPT !.name = "apply_n_hits_cut",
                                      !.args = [n_hits |-> n_hits]]

\* pair.apply_max_layer_cut(ideal_layer)
ApplyMaxLayerCut ==
    /\ err = "none"
    /\ ncalls < MaxCalls
    /\ ncalls' = ncalls + 1
    /\ pre' = tab
    /\ \E ideal_layer \in 0..(NPoints - 1) :
         LET r == apply_max_layer_cut(tab, ideal_layer)
         IN /\ tab' = r.tab
            /\ err' = r.err
            /\ call' = [NoCall EXCEPT !.name = "apply_max_layer_cut",
                                      !.args = [ideal_layer |-> ideal_layer]]

NextPair ==
    \/ PairTrimEvents
    \/ ApplyTimingCut
    \/ ApplyCthTrigger
    \/ ApplyNHitsCut
    \/ ApplyMaxLayerCut

SpecPair == InitPair /\ [][NextPair]_vars

(* ------------------------ claims on the pair view ---------------------- *)
PairOperations == {"pair.trim_events", "apply_timing_cut", "apply_cth_trigger",
                   "apply_n_hits_cut", "apply_max_layer_cut"}

\* C18: after the pair view's trim_events and after every cut operation of
\* the pair view the event counts are synchronized:
\* pair.n_events == tracker.n_events == hodoscope.n_events.
C18_PairCountsSynchronized ==
    (call.name \in PairOperations /\ err = "none") =>
        /\ tab.n_events = tab.cydet.n_events
        /\ tab.n_events = tab.cth.n_events

\* the rows of a table whose time lies in [lower, upper)
RowsInWindow(t, lower, upper) ==
    SelectSeq(t.data, LAMBDA r : lower <= r[time_name] /\ r[time_name] < upper)

\* C19: apply_timing_cut(cth_lower, cth_upper, cydet_lower, cydet_upper)
\* keeps in each subsystem exactly the hits whose time t satisfies
\* lower <= t < upper for the window given in the call for that subsystem.
C19_TimingCutUsesWindows ==
    Returned("apply_timing_cut") =>
        /\ StripAll(tab.cth.data) =
              StripAll(RowsInWindow(pre.cth, call.args.cth_lower, call.args.cth_upper))
        /\ StripAll(tab.cydet.data) =
              StripAll(RowsInWindow(pre.cydet, call.args.cydet_lower,
                                    call.args.cydet_upper))

\* the events of the pre-call hodoscope table that hold a signal hit
TriggerEvents ==
    {e \in 0..(pre.cth.n_events - 1) :
        \E h \in DOMAIN pre.cth.data :
            /\ pre.cth.hits_to_events[h] = e
            /\ pre.cth.data[h][hit_type_name] = signal_coding}

\* the rows of the events of t that are trigger events, in table order
RowsOfTriggerEvents(t) ==
    TakeMask(t.data, [h \in DOMAIN t.data |-> t.hits_to_events[h] \in TriggerEvents])

\* C20: for every pair state apply_cth_trigger leaves in both tables exactly
\* the events that had a signal hit in the hodoscope before the call; when
\* no event qualifies the result is a pair with zero events.
C20_TriggerKeepsSignalEvents ==
    call.name = "apply_cth_trigger" =>
        /\ err = "none"
        /\ StripAll(tab.cth.data) = StripAll(RowsOfTriggerEvents(pre.cth))
        /\ StripAll(tab.cydet.data) = StripAll(RowsOfTriggerEvents(pre.cydet))
        /\ tab.cth.n_events = Cardinality(TriggerEvents)
        /\ tab.cydet.n_events =
              Cardinality(TriggerEvents \cap 0..(pre.cydet.n_events - 1))
        /\ TriggerEvents = {} => tab.n_events = 0

\* the rows of the events of t that belong to the set S, in table order
RowsOfEventSet(t, S) ==
    TakeMask(t.data, [h \in DOMAIN t.data |-> t.hits_to_events[h] \in S])

\* the events of the pre-call tracker table with at least n signal hits
EventsWithSignalHits(n) ==
    {e \in 0..(pre.cydet.n_events - 1) :
        Cardinality({h \in DOMAIN pre.cydet.data :
            /\ pre.cydet.hits_to_events[h] = e
            /\ pre.cydet.data[h][hit_type_name] = signal_coding}) >= n}

\* C21: for every pair state (tracker.n_events # hodoscope.n_events included)
\* apply_n_hits_cut(n) leaves in both tables exactly the events that had at
\* least n signal hits in the tracker before the call.
C21_NHitsCutKeepsEventsWithEnoughHits ==
    call.name = "apply_n_hits_cut" =>
        LET good == EventsWithSignalHits(call.args.n_hits)
        IN /\ err = "none"
           /\ StripAll(tab.cydet.data) = StripAll(RowsOfEventSet(pre.cydet, good))
           /\ StripAll(tab.cth.data) = StripAll(RowsOfEventSet(pre.cth, good))
           /\ tab.cydet.n_events = Cardinality(good)
           /\ tab.cth.n_events = Cardinality(good)

\* the layers reached by the signal hits of event e of the pre-call tracker
SignalLayers(e) ==
    {point_layers[pre.cydet.data[h][flat_name]] : h \in
        {k \in DOMAIN pre.cydet.data :
            /\ pre.cydet.hits_to_events[k] = e
            /\ pre.cydet.data[k][hit_type_name] = signal_coding}}

\* the deepest layer a signal hit of event e reaches, -1 without signal hits
DeepestSignalLayer(e) ==
    IF SignalLayers(e) = {} THEN -1 ELSE SetMax(SignalLayers(e))

\* the events of the pre-call tracker table that reach the given layer
EventsReachingLayer(layer) ==
    {e \in 0..(pre.cydet.n_events - 1) : DeepestSignalLayer(e) >= layer}

\* C22: apply_max_layer_cut(layer) keeps exactly the events whose maximum
\* geometric layer over tracker signal hits is >= layer; background hits
\* never count, and an event without signal hits counts as layer -1 and is
\* removed.
C22_MaxLayerCutKeepsDeepEvents ==
    call.name = "apply_max_layer_cut" =>
        LET good == EventsReachingLayer(call.args.ideal_layer)
        IN /\ err = "none"
           /\ StripAll(tab.cydet.data) = StripAll(RowsOfEventSet(pre.cydet, good))
           /\ StripAll(tab.cth.data) = StripAll(RowsOfEventSet(pre.cth, good))
           /\ tab.cydet.n_events = Cardinality(good)

(* ---------------- dense measurements of the tracker table -------------- *)
\* np.repeat(np.arange(size), counts): position i repeated counts[i+1] times
RECURSIVE np_repeat_arange(_, _)
np_repeat_arange(counts, i) ==
    IF i >= Len(counts) THEN <<>>
    ELSE [k \in 1..counts[i + 1] |-> i] \o np_repeat_arange(counts, i + 1)

\* the hit whose value stays in a cell that several hits are assigned to:
\* the first one written (the docstring's reading)
assigned_hit_first(K) == CHOOSE k \in K : \A j \in K : k <= j

\* the hit whose value stays in a cell that several hits are assigned to:
\* result[evnt_ids, wire_ids] = meas writes in index order, the last one stays
assigned_hit(K) == CHOOSE k \in K : \A j \in K : j <= k

\* element k of an array broadcast against a longer one
Broadcast(arr, k) == IF Len(arr) = 1 THEN arr[1] ELSE arr[k]

\* CyDetHits.get_measurement(name, events, default=0, only_hits): selector is
\* "none" (events=None), "int", "list", or "str" (a field name passed in the
\* place of events)
cydet_get_measurement(t, name, selector, events, only_hits) ==
    IF selector = "str"
    THEN \* self.event_to_hits[evt] with a string raises
         [err |-> "IndexError", rows |-> <<>>]
    ELSE
    LET my_events == IF selector = "none" THEN arange(0, t.n_events) ELSE events
        g == get_events(t, "list", my_events, TRUE)
        meas == Column(g.rows, name)
        wire_ids == Column(g.rows, flat_name)
        evnt_ids == np_repeat_arange(TakeIdx(t.event_to_n_hits, my_events), 0)
        L == IF Len(evnt_ids) > Len(wire_ids) THEN Len(evnt_ids) ELSE Len(wire_ids)
        cell(i, p) ==
            LET K == {k \in 1..L : /\ evnt_ids[k] = i
                                   /\ Broadcast(wire_ids, k) = p}
            IN IF K = {} THEN 0 ELSE Broadcast(meas, assigned_hit(K))
        result == [i \in 1..Len(my_events) |->
                      [p \in 1..NPoints |-> cell(i - 1, p - 1)]]
    IN IF g.err # "none" THEN g
       ELSE IF Len(evnt_ids) # Len(wire_ids) /\ Len(wire_ids) # 1
       THEN \* the two index arrays cannot be broadcast together
            [err |-> "IndexError", rows |-> <<>>]
       ELSE IF only_hits
       THEN [err |-> "none",
             rows |-> [k \in 1..L |->
                          result[evnt_ids[k] + 1][Broadcast(wire_ids, k) + 1]]]
       ELSE [err |-> "none", rows |-> result]

\* tracker tables for measurements: key or count column, times and flat ids;
\* the hit type plays no part and is background throughout
MeasureTables ==
    UNION {{GeomPointsInit(TRUE, k, [h \in 1..Len(k) |-> 0], tm, fl) :
               tm \in [1..Len(k) -> CydetTimes],
               fl \in [1..Len(k) -> 0..(NPoints - 1)]} : k \in KeyColumns}
    \cup
    UNION {{GeomPointsInit(FALSE, c, [h \in 1..SeqSum(c) |-> 0], tm, fl) :
               tm \in [1..SeqSum(c) -> CydetTimes],
               fl \in [1..SeqSum(c) -> 0..(NPoints - 1)]} : c \in CountColumns}

InitMeasure ==
    /\ tab \in MeasureTables
    /\ pre = tab
    /\ call = NoCall
    /\ err = "none"
    /\ ncalls = 0

\* get_measurement(time_name, events, only_hits=...) of the tracker table:
\* a query, the table is not assigned
CyDetGetMeasurement ==
    /\ err = "none"
    /\ call.name = "init"
    /\ \E s \in {x \in Selectors(tab) : x.unique} : \E only_hits \in BOOLEAN :
         LET r == cydet_get_measurement(tab, time_name, s.selector, s.events,
                                        only_hits)
         IN /\ call' = [NoCall EXCEPT !.name = "CyDetHits.get_measurement",
                                      !.variable = time_name,
                                      !.selector = s.selector,
                                      !.events = s.events,
                                      !.args = [only_hits |-> only_hits],
                                      !.rows = r.rows]
            /\ err' = r.err
    /\ pre' = tab
    /\ UNCHANGED <<tab, ncalls>>

SpecMeasure == InitMeasure /\ [][CyDetGetMeasurement]_vars

(* --------------------- claims on dense measurements -------------------- *)
\* the events the last call selected, in the order of its selector
SelectedEvents ==
    IF call.selector = "none" THEN arange(0, pre.n_events) ELSE call.events

\* the positions of the hits of event e that lie on geometry point p
HitsOnPoint(e, p) ==
    {h \in DOMAIN pre.data : /\ pre.hits_to_events[h] = e
                             /\ pre.data[h][flat_name] = p}

\* C24: get_measurement(field, selector) of the tracker with only_hits=False
\* returns a matrix with one row per selected event and one column per
\* geometry point; row i holds the values of the hits of the i-th event of
\* the selector at the columns of their geometry ids and the default value
\* everywhere else, for every selector collection, sorted or not, with or
\* without duplicates.
C24_DenseMatrixFollowsSelector ==
    (call.name = "CyDetHits.get_measurement" /\ ~call.args.only_hits
       /\ SelectorInRange) =>
        /\ err = "none"
        /\ Len(call.rows) = Len(SelectedEvents)
        /\ \A i \in DOMAIN call.rows : \A p \in 1..NPoints :
              LET K == HitsOnPoint(SelectedEvents[i], p - 1)
              IN IF K = {} THEN call.rows[i][p] = 0
                 ELSE \E h \in K : call.rows[i][p] = pre.data[h][call.variable]

Edeps == {2, 3}

\* GeomHits.__init__: flat ids, then energy deposit, then time
EnergyBranches == FlatBranches \o <<flat_name, edep_name, time_name>>

\* the table with the energy column added (edeps by hit position)
with_edep(t, edeps) ==
    [t EXCEPT !.all_branches = EnergyBranches,
              !.data = [h \in DOMAIN t.data |->
                  [b \in DOMAIN t.data[h] \cup {edep_name} |->
                      IF b = edep_name THEN edeps[h] ELSE t.data[h][b]]]]

\* GeomHits.__init__ with its geometry and energy columns, then
\* GeomHits._finalize_data
EnergyTableInit(event_data, hit_types, times, flat_ids, edeps) ==
    sort_hits(with_edep(with_flat_ids(FlatHitsInit(TRUE, event_data, hit_types,
                                                   times, GeomBranches),
                                      flat_ids), edeps),
              time_name, TRUE, TRUE)

\* HitsMerger.__init__
summed_properties == <<edep_name>>
minned_properties == <<time_name>>
early_properties == <<hit_type_name>>

HitsMergerInit(self_table, sig_class, sig_is_cydet, this_class) ==
    [self |-> self_table, sig_class |-> sig_class,
     sig_is_cydet |-> sig_is_cydet, this_class |-> this_class]

\* GeomHits.get_measurement(events, name): self.get_events(events)[name]
geom_get_measurement(t, selector, events, name) ==
    LET g == get_events(t, selector, events, TRUE)
    IN IF g.err # "none" THEN g
       ELSE [err |-> "none", rows |-> Column(g.rows, name)]

\* a + b of two one-dimensional arrays under numpy broadcasting
np_add(a, b) ==
    IF Len(a) = Len(b)
    THEN [err |-> "none", rows |-> [k \in DOMAIN a |-> a[k] + b[k]]]
    ELSE IF Len(a) = 1
    THEN [err |-> "none", rows |-> [k \in DOMAIN b |-> a[1] + b[k]]]
    ELSE IF Len(b) = 1
    THEN [err |-> "none", rows |-> [k \in DOMAIN a |-> a[k] + b[1]]]
    ELSE [err |-> "ValueError", rows |-> <<>>]

\* HitsMerger.get_measurement(event, name). The outcome holds the error,
\* the returned array, and whether anything is returned at all (a call that
\* reaches the end of the body returns None).
merger_get_measurement(m, event, name) ==
    LET sig_measure ==
            IF m.sig_is_cydet
            THEN \* CyDetHits.get_measurement(name, events): the two
                 \* arguments arrive in each other's place
                 cydet_get_measurement(m.sig_class, event, "str", <<name>>, TRUE)
            ELSE geom_get_measurement(m.sig_class, "int", <<event>>, name)
        bkg_measure == geom_get_measurement(m.self, "int", <<event>>, name)
        out(e, rows, returned) == [err |-> e, rows |-> rows, returned |-> returned]
    IN IF sig_measure.err # "none" THEN out(sig_measure.err, <<>>, "nothing")
       ELSE IF bkg_measure.err # "none" THEN out(bkg_measure.err, <<>>, "nothing")
       ELSE IF m.this_class = "cth"
       THEN out("none", bkg_measure.rows \o sig_measure.rows, "array")
       ELSE IF m.this_class = "cydet"
       THEN IF name \in SeqRange(summed_properties)
            THEN LET r == np_add(sig_measure.rows, bkg_measure.rows)
                 IN out(r.err, r.rows, IF r.err = "none" THEN "array" ELSE "nothing")
            ELSE IF name \in SeqRange(minned_properties)
            THEN \* np.amin(sig_measure, bkg_measure): an array as axis
                 out("TypeError", <<>>, "nothing")
            ELSE IF name \in SeqRange(early_properties)
            THEN \* sig_class is not a name of the method's scope
                 out("NameError", <<>>, "nothing")
            ELSE out("none", <<>>, "None")
       ELSE out("none", <<>>, "None")

\* the tables a merger is built from: sorted key column, flat ids, energies
EnergyTables ==
    UNION {{EnergyTableInit(k, [h \in 1..Len(k) |-> 0],
                            [h \in 1..Len(k) |-> 700], fl, ed) :
               fl \in [1..Len(k) -> 0..(NPoints - 1)],
               ed \in [1..Len(k) -> Edeps]} : k \in KeyColumns}

InitMerger ==
    /\ \E self_table \in EnergyTables : \E sig_class \in EnergyTables :
       \E sig_is_cydet \in BOOLEAN : \E this_class \in {"cydet", "cth"} :
          tab = HitsMergerInit(self_table, sig_class, sig_is_cydet, this_class)
    /\ pre = tab
    /\ call = NoCall
    /\ err = "none"
    /\ ncalls = 0

\* the fields asked for: one under each policy and one under none
MeasuredNames == {edep_name, time_name, hit_type_name, flat_name}

\* merger.get_measurement(event, name): a query, no table is assigned
MergerGetMeasurement ==
    /\ err = "none"
    /\ call.name = "init"
    /\ \E event \in 0..tab.self.n_events : \E name \in MeasuredNames :
         LET r == merger_get_measurement(tab, event, name)
         IN /\ call' = [NoCall EXCEPT !.name = "HitsMerger.get_measurement",
                                      !.variable = name,
                                      !.selector = "int",
                                      !.events = <<event>>,
                                      !.args = [returned |-> r.returned],
                                      !.rows = r.rows]
            /\ err' = r.err
    /\ pre' = tab
    /\ UNCHANGED <<tab, ncalls>>

SpecMerger == InitMerger /\ [][MergerGetMeasurement]_vars

(* ------------------------- claims on the merger ------------------------ *)
\* the positions of the hits of event e of table t on geometry point p
TableHitsOnPoint(t, e, p) ==
    {h \in DOMAIN t.data : t.hits_to_events[h] = e /\ t.data[h][flat_name] = p}

\* the value table t holds for event e at geometry point p: that of its
\* last hit there, and the default 0 without a hit
ValueAtPoint(t, e, p, name) ==
    IF TableHitsOnPoint(t, e, p) = {} THEN 0
    ELSE t.data[SetMax(TableHitsOnPoint(t, e, p))][name]

\* a vector over the geometry points, read either as such or hit by hit
\* along the hits of event e of table t
GivenPerPoint(rows, vector, t, e) ==
    LET hits == TakeIdx(t.data, t.event_to_hits[e + 1])
    IN \/ rows = vector
       \/ rows = [k \in DOMAIN hits |-> vector[hits[k][flat_name] + 1]]

\* C23: for a field under the summed policy (energy) get_measurement of the
\* merger returns, for each geometry id, the sum of the two source tables'
\* values at that geometry id (2.0 and 3.0 at geometry id 7 give 5.0 there);
\* for a field under no listed policy it returns the primary source's value;
\* neither source table is modified.
C23_MergerSumsPerGeometryId ==
    (call.name = "HitsMerger.get_measurement" /\ pre.this_class = "cydet"
       /\ call.events[1] < pre.self.n_events
       /\ call.events[1] < pre.sig_class.n_events) =>
        LET e == call.events[1]
            of(t) == [p \in 1..NPoints |-> ValueAtPoint(t, e, p - 1, call.variable)]
            sum == [p \in 1..NPoints |-> of(pre.sig_class)[p] + of(pre.self)[p]]
        IN /\ tab = pre
           /\ call.variable = edep_name =>
                 /\ err = "none" /\ call.args.returned = "array"
                 /\ \/ GivenPerPoint(call.rows, sum, pre.self, e)
                    \/ GivenPerPoint(call.rows, sum, pre.sig_class, e)
           /\ call.variable = flat_name =>
                 /\ err = "none" /\ call.args.returned = "array"
                 /\ \/ GivenPerPoint(call.rows, of(pre.self), pre.self, e)
                    \/ GivenPerPoint(call.rows, of(pre.sig_class), pre.sig_class, e)

(* ------------------ tables built with key-based grouping --------------- *)
\* construction with use_evt_idx = True: the events are the distinct values
\* of the sorted key column
InitKeyed ==
    /\ \E event_data \in KeyColumns :
       \E hit_types \in [1..Len(event_data) -> HitTypes] :
          \/ tab = FlatHitsInit(TRUE, event_data, hit_types, hit_types, FlatBranches)
          \/ \E times \in [1..Len(event_data) -> Times] :
                tab = GeomHitsInit(TRUE, event_data, hit_types, times)
    /\ pre = tab
    /\ call = NoCall
    /\ err = "none"
    /\ ncalls = 0

NextKeyed == TrimHits \/ TrimEvents \/ SortHits

SpecKeyed == InitKeyed /\ [][NextKeyed]_vars

\* C26: for a table built with key-based grouping, after any sequence of
\* trim_hits / trim_events / sort_hits calls (trim_events with any list of
\* valid indices, repeated ones included) two rows have the same event_index
\* if and only if they have the same source event-key value.
C26_EventIndexMatchesKey ==
    \A i \in DOMAIN tab.data : \A j \in DOMAIN tab.data :
        (tab.data[i][event_index_name] = tab.data[j][event_index_name])
            <=> (tab.data[i][key_name] = tab.data[j][key_name])

(* ------------------ alignment of the pair view's tables ---------------- *)
\* the source events (key values) the rows of event e of table t come from
SourceEvents(t, e) ==
    {t.data[h][key_name] : h \in {k \in DOMAIN t.data : t.hits_to_events[k] = e}}

\* event index e denotes the same source event in both tables of pair p
AlignedAt(p, e) ==
    \A a \in SourceEvents(p.cydet, e) : \A b \in SourceEvents(p.cth, e) : a = b

\* C27: starting from a pair view whose tracker and hodoscope tables are
\* aligned, after any sequence of the pair's cut operations event index e
\* still denotes the same source event in both tables, for every
\* e < pair.n_events.
C27_PairStaysAligned ==
    (call.name \in {"init", "apply_timing_cut", "apply_cth_trigger",
                    "apply_n_hits_cut", "apply_max_layer_cut"}
       /\ err = "none") =>
        \A e \in 0..(tab.n_events - 1) : AlignedAt(tab, e)

(* ------------------- the hodoscope table (class CTHHits) --------------- *)
\* the column that tags a hit as upstream (1) or downstream (0)
z_pos_name == "position"

\* CTHHits.__init__: the tag column is appended behind the GeomHits columns
CthBranches == PointBranches \o <<z_pos_name>>

\* the flat ids of the active volumes: range(0, 64*2)
active_ids == 0..(64 * 2 - 1)

\* flat ids of the source files: an active and a passive volume
CthFlatIds == {0, 64 * 2}

\* the table with the tag column added (z_pos by hit position)
with_z_pos(t, z_pos) ==
    [t EXCEPT !.all_branches = CthBranches,
              !.data = [h \in DOMAIN t.data |->
                  [b \in DOMAIN t.data[h] \cup {z_pos_name} |->
                      IF b = z_pos_name THEN z_pos[h] ELSE t.data[h][b]]]]

\* these_hits[mask] of filter_hits(these_hits, variable, value)
filter_by_value(these_hits, variable, value) ==
    TakeMask(these_hits,
             get_mask(these_hits, variable,
                      Cond(TRUE, {value}, FALSE, FALSE, FALSE)).mask)

\* CTHHits._finalize_data: GeomHits._finalize_data, the passive volumes are
\* trimmed away, then the upstream and downstream rows are stored
cth_finalize_data(t) ==
    LET sorted == sort_hits(generate_indexes(t), time_name, TRUE, TRUE)
        active == trim_hits(sorted,
                      TakeMask(sorted.data,
                               get_mask(sorted.data, flat_name,
                                   Cond(TRUE, active_ids, FALSE, FALSE, FALSE)).mask))
    IN active @@ [up_data |-> filter_by_value(active.data, z_pos_name, 1),
                  down_data |-> filter_by_value(active.data, z_pos_name, 0)]

\* CTHHits.__init__ with finalize_data=True
CTHHitsInit(use_evt_idx, event_data, hit_types, times, flat_ids, z_pos) ==
    cth_finalize_data(
        with_z_pos(with_flat_ids(FlatHitsInit(use_evt_idx, event_data, hit_types,
                                              times, GeomBranches), flat_ids),
                   z_pos))

InitCth ==
    /\ \E event_data \in KeyColumns :
       \E hit_types \in [1..Len(event_data) -> HitTypes] :
       \E times \in [1..Len(event_data) -> Times] :
       \E flat_ids \in [1..Len(event_data) -> CthFlatIds] :
       \E z_pos \in [1..Len(event_data) -> {0, 1}] :
          tab = CTHHitsInit(TRUE, event_data, hit_types, times, flat_ids, z_pos)
    /\ pre = tab
    /\ call = NoCall
    /\ err = "none"
    /\ ncalls = 0

\* the mutating operations CTHHits inherits from FlatHits
SpecCth == InitCth /\ [][Next]_vars

\* C28: for a hodoscope table, after finalization and after any later
\* mutating operation (trim_hits, trim_events, sort_hits, add_hits), up_data
\* equals the rows of the current data with tag 1 and down_data the rows of
\* the current data with tag 0, in current table order.
C28_UpDownFollowData ==
    err = "none" =>
        /\ StripAll(tab.up_data) =
              StripAll(SelectSeq(tab.data, LAMBDA r : r[z_pos_name] = 1))
        /\ StripAll(tab.down_data) =
              StripAll(SelectSeq(tab.data, LAMBDA r : r[z_pos_name] = 0))

\* the rows of the listed events of table t, in the order listed
RowsOfListed(t, events) ==
    Flatten([k \in DOMAIN events |-> RowsOfEvent(t, events[k])])

\* C29: the pair view's trim_events(events) is all-or-nothing across the two
\* tables: either both the tracker and the hodoscope table are trimmed to the
\* listed events, or (when the call fails, e.g. because an index is valid
\* for the tracker but not for the hodoscope) neither table nor
\* pair.n_events is changed.
C29_PairTrimAllOrNothing ==
    call.name = "pair.trim_events" =>
        IF err = "none"
        THEN /\ StripAll(tab.cydet.data) =
                   StripAll(RowsOfListed(pre.cydet, call.events))
             /\ StripAll(tab.cth.data) =
                   StripAll(RowsOfListed(pre.cth, call.events))
             /\ tab.cydet.n_events = Len(call.events)
             /\ tab.cth.n_events = Len(call.events)
        ELSE tab = pre

====
